---- MODULE Spec2Model ----
(***************************************************************************)
(* Request-input defence layer of the Next.js demo: the sliding-window     *)
(* rate limiter, the string sanitizers and the /api/users route handlers.  *)
(***************************************************************************)
EXTENDS Integers, Sequences, FiniteSets, TLC

(* ------------------------------ bounds -------------------------------- *)
\* largest windowMs a limiter of Spec is constructed with
MaxWindow == 2
\* largest maxRequests a limiter of Spec is constructed with
MaxLimit == 2
\* number of limiter calls explored in Spec
MaxCalls == 4
\* number of limiter calls explored in SpecScenario
ScenarioCalls == 5

\* number of limiter calls explored in SpecInterleaved
InterleavedCalls == 2

\* number of requests the handlers forward in SpecHandlers
MaxForwards == 1

\* number of tokens in the strings handed to the sanitizers in SpecText and
\* SpecQuery
MaxTokens == 4

\* number of limiter calls explored in SpecAnyClock
AnyClockCalls == 3

\* number of fetch calls a UserTable makes in SpecTable
MaxFetches == 2

\* time a UserTable is followed for in SpecTable, in halves of the debounce
MaxWaits == 3

\* the caller identifiers
Identifiers == {"a", "b"}

VARIABLES
    windowMs,      \* createRateLimiter's first argument
    maxRequests,   \* createRateLimiter's second argument
    requests,      \* the Map<string, number[]> of the limiter instance
    now,           \* the last reading of Date.now()
    log,           \* history of the calls made: [id, t, ok], in call order
    pc,            \* per request in flight: the statement of the closure it is at
    loc,           \* per request in flight: the closure's local constants
    overlapped,    \* identifiers for which one call began during another
    backend,       \* the requests the route handlers sent to the backend
    reply,         \* status of the handlers' last NextResponse (0: none yet)
    fn,            \* the sanitizer being exercised ("" : none yet)
    text,          \* the string handed to it
    clean,         \* what it returned
    cleanAgain,    \* what it returned when handed its own result
    stage,         \* "input", "once" (clean is set) or "twice"
    schema,        \* the schema validateApiInput was made with ("" : none)
    input,         \* the value handed to the validator
    outcome,       \* what the validator did: returned a record, or threw
    users,         \* UserTable: the users state
    total,         \* UserTable: the total state
    loading,       \* UserTable: the loading state
    error,         \* UserTable: the error state (no value: null)
    pageIndex,     \* UserTable: the page state, zero-based
    rowsPerPage,   \* UserTable: the rowsPerPage state
    searchBox,     \* UserTable: the search state, what the search box shows
    roleFilter,    \* UserTable: the roleFilter state
    searchDebounce,\* UserTable: the searchDebounce state
    timers,        \* the pending setTimeout calls of the debounce effect
    elapsed,       \* ms elapsed since the component mounted
    issued,        \* history of the fetch calls made, in call order
    inflight,      \* numbers of the fetch calls that have not settled
    done,          \* history of the fetch calls that settled, in that order
    boxSince,      \* the time at which the search box last changed
    settled        \* the values the box has held for DebounceMs unchanged

limiterVars == <<windowMs, maxRequests, requests, now, log>>
stepVars == <<pc, loc, overlapped>>
handlerVars == <<backend, reply>>
sanitizerVars == <<fn, text, clean, cleanAgain, stage>>
validationVars == <<schema, input, outcome>>
stateVars == <<users, total, loading, error, pageIndex, rowsPerPage,
               searchBox, roleFilter, searchDebounce>>
tableVars == <<stateVars, timers, elapsed, issued, inflight, done, boxSince,
               settled>>
vars == <<limiterVars, stepVars, handlerVars, sanitizerVars, validationVars,
          tableVars>>

\* the requests that can be in flight at once in SpecInterleaved
Procs == {1, 2}

(* --------------------------- rate limiter ------------------------------ *)
\* mutant: the list is looked up without regard to the identifier
UserRequestsAnyKey(map, identifier) ==
    IF DOMAIN map = {} THEN <<>> ELSE map[CHOOSE k \in DOMAIN map : TRUE]

\* requests.get(identifier) || []
UserRequests(map, identifier) ==
    IF identifier \in DOMAIN map THEN map[identifier] ELSE <<>>

\* mutant: time >= windowStart, the window's far edge counted as recent
RecentRequestsInclusive(userRequests, windowStart) ==
    SelectSeq(userRequests, LAMBDA time : time >= windowStart)

\* userRequests.filter(time => time > windowStart)
RecentRequests(userRequests, windowStart) ==
    SelectSeq(userRequests, LAMBDA time : time > windowStart)

\* mutant: recentRequests.length > maxRequests is what rejects
UnderLimitOffByOne(recentRequests) ==
    ~(Len(recentRequests) > maxRequests)

\* the negation of `recentRequests.length >= maxRequests`
UnderLimit(recentRequests) ==
    ~(Len(recentRequests) >= maxRequests)

\* mutant: the write replaces the whole map by the one entry
MapSetAlone(map, identifier, list) == [k \in {identifier} |-> list]

\* requests.set(identifier, list)
MapSet(map, identifier, list) ==
    [k \in DOMAIN map \cup {identifier} |->
        IF k = identifier THEN list ELSE map[k]]

\* mutant: the attempt is recorded before the limit is checked, so that
\* rejected attempts count toward later windows
LimiterCountsRejected(map, identifier, t) ==
    LET recentRequests ==
            RecentRequests(UserRequests(map, identifier), t - windowMs)
    IN  [ok |-> UnderLimit(recentRequests),
         requests |-> MapSet(map, identifier, Append(recentRequests, t))]

\* mutant: the pruned list is written back on rejection as well
LimiterWritesBack(map, identifier, t) ==
    LET recentRequests ==
            RecentRequests(UserRequests(map, identifier), t - windowMs)
    IN  IF UnderLimit(recentRequests)
        THEN [ok |-> TRUE,
              requests |-> MapSet(map, identifier, Append(recentRequests, t))]
        ELSE [ok |-> FALSE,
              requests |-> MapSet(map, identifier, recentRequests)]

\* mutant: the new timestamp is put in front of the pruned list
LimiterPrepends(map, identifier, t) ==
    LET recentRequests ==
            RecentRequests(UserRequests(map, identifier), t - windowMs)
    IN  IF UnderLimit(recentRequests)
        THEN [ok |-> TRUE,
              requests |-> MapSet(map, identifier, <<t>> \o recentRequests)]
        ELSE [ok |-> FALSE, requests |-> map]

\* mutant: the new timestamp is appended to the list as it was stored, the
\* expired timestamps included
LimiterKeepsExpired(map, identifier, t) ==
    LET userRequests == UserRequests(map, identifier)
        recentRequests == RecentRequests(userRequests, t - windowMs)
    IN  IF UnderLimit(recentRequests)
        THEN [ok |-> TRUE,
              requests |-> MapSet(map, identifier, Append(userRequests, t))]
        ELSE [ok |-> FALSE, requests |-> map]

\* One run of the closure returned by createRateLimiter, with Date.now() = t:
\* the returned boolean and the map it leaves behind.
Limiter(map, identifier, t) ==
    LET windowStart == t - windowMs
        userRequests == UserRequests(map, identifier)
        recentRequests == RecentRequests(userRequests, windowStart)
    IN  IF UnderLimit(recentRequests)
        THEN [ok |-> TRUE,
              requests |-> MapSet(map, identifier, Append(recentRequests, t))]
        ELSE [ok |-> FALSE, requests |-> map]

\* how far the clock has moved since the previous reading
Deltas ==
    {d \in {0, 1, 2, windowMs - 1, windowMs, windowMs + 1} : d >= 0}

\* limiter(identifier), run to completion, d ms after the previous reading
Call(identifier, d) ==
    LET t == now + d
        r == Limiter(requests, identifier, t)
    IN  /\ now' = t
        /\ requests' = r.requests
        /\ log' = Append(log, [id |-> identifier, t |-> t, ok |-> r.ok])
        /\ UNCHANGED <<windowMs, maxRequests>>
        /\ UNCHANGED <<stepVars, handlerVars, sanitizerVars, validationVars, tableVars>>

\* no request is inside the closure
NoLocals ==
    [identifier |-> "", now |-> 0, windowStart |-> 0,
     userRequests |-> <<>>, recentRequests |-> <<>>]

InitSteps ==
    /\ pc = [p \in Procs |-> "idle"]
    /\ loc = [p \in Procs |-> NoLocals]
    /\ overlapped = {}
    /\ backend = <<>>
    /\ reply = 0

\* no sanitizer is being exercised
InitNoText ==
    /\ fn = ""
    /\ text = <<>>
    /\ clean = <<>>
    /\ cleanAgain = <<>>
    /\ stage = "input"

\* no UserTable is mounted
InitNoTable ==
    /\ users = <<>>
    /\ total = 0
    /\ loading = TRUE
    /\ error = <<>>
    /\ pageIndex = 0
    /\ rowsPerPage = 10
    /\ searchBox = ""
    /\ roleFilter = ""
    /\ searchDebounce = ""
    /\ timers = {}
    /\ elapsed = 0
    /\ issued = <<>>
    /\ inflight = {}
    /\ done = <<>>
    /\ boxSince = 0
    /\ settled = {}

\* no validator has been handed anything, and no table is shown
InitNoInput ==
    /\ schema = ""
    /\ input = [isObject |-> FALSE, fields |-> <<>>]
    /\ outcome = [status |-> "none", value |-> <<>>, message |-> <<>>]
    /\ InitNoTable

Init ==
    /\ windowMs \in 0..MaxWindow
    /\ maxRequests \in 0..MaxLimit
    /\ requests = <<>>
    /\ now = 0
    /\ log = <<>>
    /\ InitSteps
    /\ InitNoText
    /\ InitNoInput

Next ==
    \E identifier \in Identifiers, d \in Deltas :
        /\ Len(log) < MaxCalls
        /\ Call(identifier, d)

Spec == Init /\ [][Next]_vars

\* Date.now() is the wall clock: a reading can also lie before the last one
ClockSteps == Deltas \cup {-d : d \in Deltas}

NextAnyClock ==
    \E identifier \in Identifiers, d \in ClockSteps :
        /\ Len(log) < AnyClockCalls
        /\ Call(identifier, d)

SpecAnyClock == Init /\ [][NextAnyClock]_vars

\* the limiter of the spec's scenario: createRateLimiter(1000, 3)
InitScenario ==
    /\ windowMs = 1000
    /\ maxRequests = 3
    /\ requests = <<>>
    /\ now = 0
    /\ log = <<>>
    /\ InitSteps
    /\ InitNoText
    /\ InitNoInput

NextScenario ==
    \E identifier \in Identifiers, d \in Deltas :
        /\ Len(log) < ScenarioCalls
        /\ Call(identifier, d)

SpecScenario == InitScenario /\ [][NextScenario]_vars

(* ------------- the closure, one statement at a time -------------------- *)
\* What a host that lets requests interleave between the statements of the
\* closure (a preemptive, multi-threaded host) makes of lines 86-106.

\* const now = Date.now(); const windowStart = now - windowMs;
Enter(p, identifier, d) ==
    /\ pc[p] = "idle"
    /\ now' = now + d
    /\ loc' = [loc EXCEPT ![p] =
                  [identifier |-> identifier, now |-> now + d,
                   windowStart |-> (now + d) - windowMs,
                   userRequests |-> <<>>, recentRequests |-> <<>>]]
    /\ pc' = [pc EXCEPT ![p] = "get"]
    /\ overlapped' =
          IF \E q \in Procs \ {p} :
                 pc[q] # "idle" /\ loc[q].identifier = identifier
          THEN overlapped \cup {identifier}
          ELSE overlapped
    /\ UNCHANGED <<windowMs, maxRequests, requests, log, handlerVars, sanitizerVars, validationVars, tableVars>>

\* const userRequests = requests.get(identifier) || [];
StepGet(p) ==
    /\ pc[p] = "get"
    /\ loc' = [loc EXCEPT ![p].userRequests =
                  UserRequests(requests, loc[p].identifier)]
    /\ pc' = [pc EXCEPT ![p] = "filter"]
    /\ UNCHANGED <<limiterVars, overlapped, handlerVars, sanitizerVars, validationVars, tableVars>>

\* const recentRequests = userRequests.filter(time => time > windowStart);
StepFilter(p) ==
    /\ pc[p] = "filter"
    /\ loc' = [loc EXCEPT ![p].recentRequests =
                  RecentRequests(loc[p].userRequests, loc[p].windowStart)]
    /\ pc' = [pc EXCEPT ![p] = "check"]
    /\ UNCHANGED <<limiterVars, overlapped, handlerVars, sanitizerVars, validationVars, tableVars>>

\* if (recentRequests.length >= maxRequests) { return false; }
StepCheck(p) ==
    /\ pc[p] = "check"
    /\ IF UnderLimit(loc[p].recentRequests)
       THEN /\ pc' = [pc EXCEPT ![p] = "push"]
            /\ UNCHANGED <<loc, log>>
       ELSE /\ pc' = [pc EXCEPT ![p] = "idle"]
            /\ loc' = [loc EXCEPT ![p] = NoLocals]
            /\ log' = Append(log, [id |-> loc[p].identifier,
                                   t |-> loc[p].now, ok |-> FALSE])
    /\ UNCHANGED <<windowMs, maxRequests, requests, now, overlapped, handlerVars, sanitizerVars, validationVars, tableVars>>

\* recentRequests.push(now);
StepPush(p) ==
    /\ pc[p] = "push"
    /\ loc' = [loc EXCEPT ![p].recentRequests =
                  Append(loc[p].recentRequests, loc[p].now)]
    /\ pc' = [pc EXCEPT ![p] = "set"]
    /\ UNCHANGED <<limiterVars, overlapped, handlerVars, sanitizerVars, validationVars, tableVars>>

\* requests.set(identifier, recentRequests); return true;
StepSet(p) ==
    /\ pc[p] = "set"
    /\ requests' = MapSet(requests, loc[p].identifier, loc[p].recentRequests)
    /\ log' = Append(log, [id |-> loc[p].identifier,
                           t |-> loc[p].now, ok |-> TRUE])
    /\ pc' = [pc EXCEPT ![p] = "idle"]
    /\ loc' = [loc EXCEPT ![p] = NoLocals]
    /\ UNCHANGED <<windowMs, maxRequests, now, overlapped, handlerVars, sanitizerVars, validationVars, tableVars>>

\* calls begun so far
Begun == Len(log) + Cardinality({p \in Procs : pc[p] # "idle"})

NextInterleaved ==
    \E p \in Procs :
        \/ \E identifier \in Identifiers, d \in Deltas :
               /\ Begun < InterleavedCalls
               /\ Enter(p, identifier, d)
        \/ StepGet(p)
        \/ StepFilter(p)
        \/ StepCheck(p)
        \/ StepPush(p)
        \/ StepSet(p)

SpecInterleaved == Init /\ [][NextInterleaved]_vars

(* ----------------------------- sanitizers ------------------------------ *)
\* Strings are sequences of one-character strings.

\* n copies of the character c
Repeat(c, n) == [i \in 1..n |-> c]

UpperCase == <<"A", "B", "C", "D", "E", "F", "G", "H", "I", "J", "K", "L", "M",
               "N", "O", "P", "Q", "R", "S", "T", "U", "V", "W", "X", "Y", "Z">>
LowerCase == <<"a", "b", "c", "d", "e", "f", "g", "h", "i", "j", "k", "l", "m",
               "n", "o", "p", "q", "r", "s", "t", "u", "v", "w", "x", "y", "z">>

\* the other letter a case-insensitive regular expression takes for c
OtherCase(c) ==
    IF \E i \in 1..26 : LowerCase[i] = c
    THEN UpperCase[CHOOSE i \in 1..26 : LowerCase[i] = c]
    ELSE IF \E i \in 1..26 : UpperCase[i] = c
         THEN LowerCase[CHOOSE i \in 1..26 : UpperCase[i] = c]
         ELSE c

\* the pattern as the flags make the regular expression read it: with the i
\* flag each letter stands for both of its cases
Cases(pattern, ignoreCase) ==
    [k \in 1..Len(pattern) |->
        IF ignoreCase THEN {pattern[k], OtherCase(pattern[k])}
        ELSE {pattern[k]}]

\* the pattern (one set of characters per position) matches s at position i
MatchesAt(s, i, cases) ==
    /\ i + Len(cases) - 1 <= Len(s)
    /\ \A k \in 1..Len(cases) : s[i + k - 1] \in cases[k]

\* s.replace(/pattern/g, '') from position i on: the scan goes left to right
\* to the next match, keeps what lies before it, and resumes after the match
\* without looking at the text it has produced
RECURSIVE ReplaceFrom(_, _, _)
ReplaceFrom(s, i, cases) ==
    LET starts == {k \in i..Len(s) : MatchesAt(s, k, cases)}
    IN  IF starts = {} THEN SubSeq(s, i, Len(s))
        ELSE LET m == CHOOSE k \in starts : \A j \in starts : k <= j
             IN  SubSeq(s, i, m - 1) \o ReplaceFrom(s, m + Len(cases), cases)

\* s.replace(/pattern/g, '') and s.replace(/pattern/gi, '')
Replace(s, pattern) == ReplaceFrom(s, 1, Cases(pattern, FALSE))
ReplaceIgnoreCase(s, pattern) == ReplaceFrom(s, 1, Cases(pattern, TRUE))

\* mutant: the g flag is missing, only the first such character goes
ReplaceCharsFirst(s, chars) ==
    LET hits == {i \in 1..Len(s) : s[i] \in chars}
    IN  IF hits = {} THEN s
        ELSE LET m == CHOOSE i \in hits : \A j \in hits : i <= j
             IN  SubSeq(s, 1, m - 1) \o SubSeq(s, m + 1, Len(s))

\* s.replace(/[chars]/g, '')
ReplaceChars(s, chars) == SelectSeq(s, LAMBDA c : c \notin chars)

\* mutant: one character too many is kept
SliceOffByOne(s, n) == SubSeq(s, 1, IF Len(s) < n + 1 THEN Len(s) ELSE n + 1)

\* s.slice(0, n)
Slice(s, n) == SubSeq(s, 1, IF Len(s) < n THEN Len(s) ELSE n)

\* the white space String.prototype.trim removes
WhiteSpace == {" ", "\t", "\n"}

\* s.trim()
Trim(s) ==
    LET kept == {i \in 1..Len(s) : s[i] \notin WhiteSpace}
    IN  IF kept = {} THEN <<>>
        ELSE SubSeq(s,
                 CHOOSE i \in kept : \A j \in 1..(i - 1) : j \notin kept,
                 CHOOSE i \in kept : \A j \in (i + 1)..Len(s) : j \notin kept)

\* export const sanitizeText
sanitizeText(s) ==
    Trim(ReplaceIgnoreCase(ReplaceChars(s, {"<", ">"}), <<"j", "a", "v", "a", "s", "c", "r", "i", "p", "t", ":">>))

\* the replace chain of validateSearchQuery, before .slice(0, 100)
StripPatterns(query) ==
    LET q1 == ReplaceChars(query, {"'", "\"", ";", "\\"})
        q2 == Replace(q1, <<"-", "-">>)
        q3 == Replace(q2, <<"/", "*">>)
        q4 == Replace(q3, <<"*", "/">>)
        q5 == ReplaceIgnoreCase(q4, <<"x", "p", "_">>)
    IN  ReplaceIgnoreCase(q5, <<"s", "p", "_">>)

\* mutant: the query is cut to 100 characters before it is stripped
validateSearchQuerySliceFirst(query) ==
    Trim(StripPatterns(Slice(query, 100)))

\* export const validateSearchQuery
validateSearchQuery(query) ==
    Trim(Slice(StripPatterns(query), 100))

\* the pieces the strings handed to sanitizeText are made of
TextTokens ==
    {<<"<">>, <<">">>, <<" ">>, <<"b">>, <<"j", "a", "v", "a">>, <<"s", "c", "r", "i", "p", "t", ":">>, <<"j", "a", "v", "a", "s", "c", "r", "i", "p", "t", ":">>, <<"J", "a", "v", "a", "S", "c", "r", "i", "p", "t", ":">>}

\* the pieces the strings handed to validateSearchQuery are made of
QueryTokens ==
    {<<"'", "\"", ";", "\\">>, <<"-">>, <<"/">>, <<"*">>,
     <<" ">>, <<"x">>, <<"S">>, <<"p", "_">>}

\* what a query starts with: nothing, or enough to reach the 100 of slice
QueryPrefixes == {<<>>, Repeat("a", 98)}

\* the query of the SQL-pattern scenario: admin'; DROP TABLE users; --
AdminQuery ==
    <<"a", "d", "m", "i", "n", "'", ";", " ", "D", "R", "O", "P", " ",
      "T", "A", "B", "L", "E", " ", "u", "s", "e", "r", "s", ";", " ", "-", "-">>

\* a query of 100 quote characters followed by abc
QuotesThenAbc == Repeat("'", 100) \o <<"a", "b", "c">>

\* the strings of at most n tokens
RECURSIVE Concat(_)
Concat(tokens) ==
    IF tokens = <<>> THEN <<>> ELSE Head(tokens) \o Concat(Tail(tokens))

Strings(tokens, n) ==
    {Concat(ts) : ts \in UNION {[1..k -> tokens] : k \in 0..n}}

\* the sanitizer fn applied to s
Sanitize(f, s) ==
    IF f = "sanitizeText" THEN sanitizeText(s) ELSE validateSearchQuery(s)

\* a first call of the sanitizer
Apply ==
    /\ stage = "input"
    /\ clean' = Sanitize(fn, text)
    /\ stage' = "once"
    /\ UNCHANGED <<fn, text, cleanAgain>>
    /\ UNCHANGED <<limiterVars, stepVars, handlerVars, validationVars, tableVars>>

\* a second call, on the result of the first
ApplyAgain ==
    /\ stage = "once"
    /\ cleanAgain' = Sanitize(fn, clean)
    /\ stage' = "twice"
    /\ UNCHANGED <<fn, text, clean>>
    /\ UNCHANGED <<limiterVars, stepVars, handlerVars, validationVars, tableVars>>

\* no limiter is in use, and sanitizer f is about to be handed a string
InitSanitize(f) ==
    /\ windowMs = 0
    /\ maxRequests = 0
    /\ requests = <<>>
    /\ now = 0
    /\ log = <<>>
    /\ InitSteps
    /\ InitNoInput
    /\ fn = f
    /\ clean = <<>>
    /\ cleanAgain = <<>>
    /\ stage = "input"

InitText ==
    /\ InitSanitize("sanitizeText")
    /\ text \in Strings(TextTokens, MaxTokens)

InitQuery ==
    /\ InitSanitize("validateSearchQuery")
    /\ text \in {p \o t : p \in QueryPrefixes,
                           t \in Strings(QueryTokens, MaxTokens)}
                   \cup {AdminQuery, QuotesThenAbc}

NextSanitize == Apply \/ ApplyAgain

SpecText == InitText /\ [][NextSanitize]_vars
SpecQuery == InitQuery /\ [][NextSanitize]_vars

(* ------------------------- /api/users handlers ------------------------- *)
\* A value that may be missing is a tuple of length 0 or 1: NoValue is what
\* searchParams.get(name) gives for a missing or empty parameter (null or '',
\* both falsy), Some(v) a parameter that is there.
NoValue == <<>>
Some(v) == <<v>>

\* value || fallback, for a query parameter
OrElse(value, fallback) == IF value = NoValue THEN fallback ELSE value[1]

\* query strings a client sends: page and per_page as the numbers they spell
QueryPages == {NoValue, Some(0), Some(1), Some(10001)}
QueryPerPages == {NoValue, Some(10), Some(101)}
QuerySearches == {NoValue, Some(<<"b", "o", "b">>), Some(Repeat("a", 101))}
QueryRoles == {NoValue, Some("admin"), Some("root")}

\* JSON bodies a client posts; NoValue is a body request.json() throws on
Bodies ==
    {NoValue} \cup
    {Some(b) : b \in
        [name : {<<>>, <<"A", "l">>},
         email : {<<"y", "@", "z", ".", "c", "o", "m">>, <<"y">>},
         role : {"admin", "superuser"}]}

\* z.string().email(): one "@" after a local part, a dot inside the domain
EmailFormat(e) ==
    \E i \in 2..Len(e) :
        /\ e[i] = "@"
        /\ \A j \in 1..Len(e) : e[j] = "@" => j = i
        /\ \E k \in (i + 2)..(Len(e) - 1) : e[k] = "."

\* /^[a-zA-Z\s'-]+$/ over the characters the bodies use
NameChars == {"A", "l", " ", "'", "-"}

\* userValidationSchema accepts the body (name, email, role; bio is optional)
UserSchemaAccepts(body) ==
    /\ Len(body.name) >= 1 /\ Len(body.name) <= 100
    /\ \A i \in 1..Len(body.name) : body.name[i] \in NameChars
    /\ EmailFormat(body.email) /\ Len(body.email) <= 100
    /\ body.role \in {"admin", "user", "manager"}

\* searchValidationSchema accepts the query values
SearchSchemaAccepts(q) ==
    /\ Len(q.search) <= 100
    /\ q.role \in {"admin", "user", "manager", ""}
    /\ q.page >= 1 /\ q.page <= 10000
    /\ q.per_page >= 1 /\ q.per_page <= 100

\* export async function GET(request): the query is copied into the backend
\* URL (page and per_page defaulted, empty search and role left out) and
\* fetched; a non-OK response or a failed fetch makes the reply 500.
GET(identifier, page, per_page, search, role, responseOk) ==
    LET params == [page |-> OrElse(page, 1),
                   per_page |-> OrElse(per_page, 10),
                   search |-> OrElse(search, <<>>),
                   role |-> OrElse(role, "")]
    IN  /\ backend' = Append(backend,
              [method |-> "GET", identifier |-> identifier,
               calls |-> Len(log), payload |-> params])
        /\ reply' = IF responseOk THEN 200 ELSE 500
        /\ UNCHANGED <<limiterVars, stepVars, sanitizerVars, validationVars, tableVars>>

\* export async function POST(request): the parsed body is sent on as it is;
\* the backend's status is passed through, 201 on success; a body that does
\* not parse makes the reply 500 before any fetch.
POST(identifier, body, status) ==
    IF body = NoValue
    THEN /\ reply' = 500
         /\ UNCHANGED <<backend, limiterVars, stepVars, sanitizerVars, validationVars, tableVars>>
    ELSE /\ backend' = Append(backend,
               [method |-> "POST", identifier |-> identifier,
                calls |-> Len(log), payload |-> body[1]])
         /\ reply' = IF status = 200 THEN 201 ELSE status
         /\ UNCHANGED <<limiterVars, stepVars, sanitizerVars, validationVars, tableVars>>

NextHandlers ==
    \/ \E identifier \in Identifiers, page \in QueryPages,
          per_page \in QueryPerPages, search \in QuerySearches,
          role \in QueryRoles, responseOk \in BOOLEAN :
            /\ Len(backend) < MaxForwards
            /\ GET(identifier, page, per_page, search, role, responseOk)
    \/ \E identifier \in Identifiers, body \in Bodies,
          status \in {200, 400, 500} :
            /\ Len(backend) < MaxForwards
            /\ POST(identifier, body, status)
    \/ \E identifier \in Identifiers, d \in Deltas :
            /\ Len(log) < MaxForwards
            /\ Call(identifier, d)

SpecHandlers == Init /\ [][NextHandlers]_vars

(* ------------------- schemas and validateApiInput ---------------------- *)

\* a JSON value: its typeof, with its characters or its number
Str(s) == [kind |-> "string", s |-> s, n |-> 0]
Num(n) == [kind |-> "number", s |-> <<>>, n |-> n]
True == [kind |-> "boolean", s |-> <<>>, n |-> 1]
Undefined == [kind |-> "undefined", s |-> <<>>, n |-> 0]

\* the characters of s as one string
RECURSIVE Text(_)
Text(s) == IF s = <<>> THEN "" ELSE Head(s) \o Text(Tail(s))

\* one check of a z.string() or z.number() chain, with its message
Check(check, arg, message) ==
    [check |-> check, arg |-> arg, message |-> message]

\* the values of the role enumerations
Admin == <<"a", "d", "m", "i", "n">>
User == <<"u", "s", "e", "r">>
Manager == <<"m", "a", "n", "a", "g", "e", "r">>

\* the fields of userValidationSchema, in the order they are declared
userValidationSchema ==
    << [key |-> "name", type |-> "string",
        checks |-> << Check("min", 1, "Name is required"),
                      Check("max", 100, "Name must be less than 100 characters"),
                      Check("regex", 0, "Name contains invalid characters") >>,
        values |-> <<>>, errorMap |-> NoValue,
        optional |-> FALSE, transform |-> ""],
       [key |-> "email", type |-> "string",
        checks |-> << Check("email", 0, "Invalid email format"),
                      Check("max", 100, "Email must be less than 100 characters") >>,
        values |-> <<>>, errorMap |-> NoValue,
        optional |-> FALSE, transform |-> ""],
       [key |-> "role", type |-> "enum",
        checks |-> <<>>,
        values |-> <<Admin, User, Manager>>,
        errorMap |-> Some("Role must be admin, user, or manager"),
        optional |-> FALSE, transform |-> ""],
       [key |-> "bio", type |-> "string",
        checks |-> << Check("max", 500, "Bio must be less than 500 characters") >>,
        values |-> <<>>, errorMap |-> NoValue,
        optional |-> TRUE, transform |-> "sanitizeHtml"] >>

\* the fields of searchValidationSchema, in the order they are declared
searchValidationSchema ==
    << [key |-> "search", type |-> "string",
        checks |-> << Check("max", 100, "Search query too long") >>,
        values |-> <<>>, errorMap |-> NoValue,
        optional |-> TRUE, transform |-> "validateSearchQuery"],
       [key |-> "role", type |-> "enum",
        checks |-> <<>>,
        values |-> <<Admin, User, Manager, <<>> >>,
        errorMap |-> NoValue,
        optional |-> TRUE, transform |-> ""],
       [key |-> "page", type |-> "number",
        checks |-> << Check("min", 1, "Page must be at least 1"),
                      Check("max", 10000, "Page number too high") >>,
        values |-> <<>>, errorMap |-> NoValue,
        optional |-> FALSE, transform |-> ""],
       [key |-> "per_page", type |-> "number",
        checks |-> << Check("min", 1, "Per page must be at least 1"),
                      Check("max", 100, "Per page cannot exceed 100") >>,
        values |-> <<>>, errorMap |-> NoValue,
        optional |-> FALSE, transform |-> ""] >>

SchemaOf(name) ==
    IF name = "userValidationSchema" THEN userValidationSchema
    ELSE searchValidationSchema

\* the names a schema declares
FieldNames(shape) == {shape[i].key : i \in 1..Len(shape)}

\* /^[a-zA-Z\s'-]+$/ : one character or more, each a letter, white space,
\* an apostrophe or a hyphen
NameRegex(s) == Len(s) >= 1 /\ \A i \in 1..Len(s) : s[i] \in NameChars

\* check c fails on value v: min and max compare a string's length or a
\* number's value with the bound, both bounds inclusive
CheckFails(c, v) ==
    LET size == IF v.kind = "string" THEN Len(v.s) ELSE v.n
    IN  CASE c.check = "min" -> size < c.arg
          [] c.check = "max" -> size > c.arg
          [] c.check = "regex" -> ~NameRegex(v.s)
          [] c.check = "email" -> ~EmailFormat(v.s)

\* the messages of the checks of a chain that fail on v: every check is
\* run, and the messages come in the order of the chain
ChainIssues(checks, v) ==
    LET failed == SelectSeq(checks, LAMBDA c : CheckFails(c, v))
    IN  [i \in 1..Len(failed) |-> failed[i].message]

\* z.string() with its checks
ParseString(f, v) ==
    IF v.kind # "string"
    THEN [issues |-> <<"Expected string, received " \o v.kind>>, value |-> v]
    ELSE [issues |-> ChainIssues(f.checks, v), value |-> v]

\* mutant: a number out of range is moved to the nearest bound
ParseNumberClamped(f, v) ==
    IF v.kind # "number"
    THEN [issues |-> <<"Expected number, received " \o v.kind>>, value |-> v]
    ELSE LET lo == f.checks[1].arg
             hi == f.checks[2].arg
         IN  [issues |-> <<>>,
              value |-> Num(IF v.n < lo THEN lo ELSE IF v.n > hi THEN hi ELSE v.n)]

\* z.number() with its checks
ParseNumber(f, v) ==
    IF v.kind # "number"
    THEN [issues |-> <<"Expected number, received " \o v.kind>>, value |-> v]
    ELSE [issues |-> ChainIssues(f.checks, v), value |-> v]

\* 'admin' | 'user' | 'manager' : the values as the default message lists them
RECURSIVE Expected(_)
Expected(values) ==
    IF Len(values) = 1 THEN "'" \o Text(values[1]) \o "'"
    ELSE "'" \o Text(values[1]) \o "' | " \o Expected(Tail(values))

\* z.enum(values, { errorMap }): the map's message replaces the default one
ParseEnum(f, v) ==
    IF v.kind = "string" /\ \E i \in 1..Len(f.values) : f.values[i] = v.s
    THEN [issues |-> <<>>, value |-> v]
    ELSE [issues |->
            << IF f.errorMap # NoValue THEN f.errorMap[1]
               ELSE IF v.kind # "string"
               THEN "Expected " \o Expected(f.values) \o ", received " \o v.kind
               ELSE "Invalid enum value. Expected " \o Expected(f.values)
                        \o ", received '" \o Text(v.s) \o "'" >>,
          value |-> v]

\* DOMPurify.sanitize(dirty, ...) on text that holds no markup: the text
\* comes back as it is. Only such text is handed over here.
sanitizeHtml(dirty) == dirty

\* .transform(val => val ? f(val) : val)
Transform(f, v) ==
    CASE f.transform = "sanitizeHtml" ->
            IF v.s = <<>> THEN v ELSE Str(sanitizeHtml(v.s))
      [] f.transform = "validateSearchQuery" ->
            IF v.s = <<>> THEN v ELSE Str(validateSearchQuery(v.s))
      [] OTHER -> v

\* mutant: the transform runs on the raw value, and the checks on its result
ParseFieldTransformFirst(f, fields) ==
    IF f.key \notin DOMAIN fields
    THEN [issues |-> IF f.optional THEN <<>>
                     ELSE IF f.errorMap # NoValue THEN <<f.errorMap[1]>>
                     ELSE <<"Required">>,
          set |-> FALSE, value |-> Undefined]
    ELSE LET v == Transform(f, fields[f.key])
             r == CASE f.type = "string" -> ParseString(f, v)
                    [] f.type = "number" -> ParseNumber(f, v)
                    [] f.type = "enum" -> ParseEnum(f, v)
         IN  [issues |-> r.issues, set |-> TRUE, value |-> r.value]

\* one field of z.object({...}) against the input's fields: a missing key is
\* fine when the field is optional; the transform runs on a valid value only
ParseField(f, fields) ==
    IF f.key \notin DOMAIN fields
    THEN [issues |-> IF f.optional THEN <<>>
                     ELSE IF f.errorMap # NoValue THEN <<f.errorMap[1]>>
                     ELSE <<"Required">>,
          set |-> FALSE, value |-> Undefined]
    ELSE LET v == fields[f.key]
             r == CASE f.type = "string" -> ParseString(f, v)
                    [] f.type = "number" -> ParseNumber(f, v)
                    [] f.type = "enum" -> ParseEnum(f, v)
         IN  [issues |-> r.issues, set |-> TRUE,
              value |-> IF r.issues = <<>> THEN Transform(f, r.value)
                        ELSE r.value]

\* the issues of the fields, in the order of the fields
RECURSIVE Issues(_)
Issues(parsed) ==
    IF parsed = <<>> THEN <<>>
    ELSE Head(parsed).issues \o Issues(Tail(parsed))

\* mutant: the keys the schema does not declare are copied through
ParseObjectPassthrough(shape, fields) ==
    LET parsed == [i \in 1..Len(shape) |-> ParseField(shape[i], fields)]
        set == {i \in 1..Len(shape) : parsed[i].set}
    IN  [issues |-> Issues(parsed),
         value |-> [k \in {shape[i].key : i \in set}
                          \cup (DOMAIN fields \ FieldNames(shape)) |->
                      IF k \in FieldNames(shape)
                      THEN parsed[CHOOSE i \in set : shape[i].key = k].value
                      ELSE fields[k]]]

\* mutant: parsing stops at the first field that fails
ParseObjectFailFast(shape, fields) ==
    LET parsed == [i \in 1..Len(shape) |-> ParseField(shape[i], fields)]
        set == {i \in 1..Len(shape) : parsed[i].set}
        bad == {i \in 1..Len(shape) : parsed[i].issues # <<>>}
    IN  [issues |-> IF bad = {} THEN <<>>
                    ELSE parsed[CHOOSE i \in bad : \A j \in bad : i <= j].issues,
         value |-> [k \in {shape[i].key : i \in set} |->
                      parsed[CHOOSE i \in set : shape[i].key = k].value]]

\* z.object(shape) against an object: every field is parsed, the issues of
\* all of them are collected, and the result holds the declared keys only
ParseObject(shape, fields) ==
    LET parsed == [i \in 1..Len(shape) |-> ParseField(shape[i], fields)]
        set == {i \in 1..Len(shape) : parsed[i].set}
    IN  [issues |-> Issues(parsed),
         value |-> [k \in {shape[i].key : i \in set} |->
                      parsed[CHOOSE i \in set : shape[i].key = k].value]]

\* schema.parse(input)
Parse(shape, in) ==
    IF in.isObject THEN ParseObject(shape, in.fields)
    ELSE [issues |-> <<"Expected object, received null">>, value |-> <<>>]

\* msgs.join(sep), as the pieces it is put together from
RECURSIVE Join(_, _)
Join(msgs, sep) ==
    IF Len(msgs) <= 1 THEN msgs
    ELSE <<Head(msgs), sep>> \o Join(Tail(msgs), sep)

\* mutant: the error is swallowed and what was parsed is returned
validateApiInputLenient(shape, in) ==
    [status |-> "returned", value |-> Some(Parse(shape, in).value),
     message |-> <<>>]

\* validateApiInput(schema)(input): the parsed record, or an Error whose
\* message is `Validation failed: ` and the issues' messages joined by ', '
validateApiInput(shape, in) ==
    LET r == Parse(shape, in)
    IN  IF r.issues = <<>>
        THEN [status |-> "returned", value |-> Some(r.value), message |-> <<>>]
        ELSE [status |-> "thrown", value |-> NoValue,
              message |-> <<"Validation failed: ">> \o Join(r.issues, ", ")]

\* the object with the keys of the pairs <<key, optional value>> whose value
\* is there
Obj(pairs) ==
    LET there == {i \in 1..Len(pairs) : pairs[i][2] # NoValue}
    IN  [k \in {pairs[i][1] : i \in there} |->
            pairs[CHOOSE i \in there : pairs[i][1] = k][2][1]]

\* objects a client hands to validateApiInput(userValidationSchema)
UserInputs ==
    {Obj(<< <<"name", name>>, <<"email", email>>, <<"role", role>>,
            <<"bio", bio>>, <<"admin", admin>> >>) :
        name \in {NoValue, Some(Str(<<>>)), Some(Str(<<"A", "l">>)),
                  Some(Str(<<"A", "1">>)), Some(Str(Repeat("A", 101))),
                  Some(Num(7))},
        email \in {NoValue, Some(Str(<<"y", "@", "z", ".", "c", "o", "m">>)),
                   Some(Str(<<"y">>))},
        role \in {NoValue, Some(Str(Admin)),
                  Some(Str(<<"s", "u", "p", "e", "r", "u", "s", "e", "r">>))},
        bio \in {NoValue, Some(Str(<<"h", "i">>)), Some(Str(Repeat("a", 501)))},
        admin \in {NoValue, Some(True)}}

\* objects a client hands to validateApiInput(searchValidationSchema)
SearchInputs ==
    {Obj(<< <<"search", search>>, <<"role", role>>, <<"page", page>>,
            <<"per_page", per_page>>, <<"admin", admin>> >>) :
        search \in {NoValue, Some(Str(<<>>)), Some(Str(<<"b", "'", "x">>)),
                    Some(Str(Repeat("a", 101))),
                    Some(Str(Repeat("a", 100) \o <<"'">>))},
        role \in {NoValue, Some(Str(<<>>)), Some(Str(Admin)),
                  Some(Str(<<"r", "o", "o", "t">>))},
        page \in {NoValue, Some(Num(0)), Some(Num(1)), Some(Num(10000)),
                  Some(Num(10001)), Some(Str(<<"1">>))},
        per_page \in {Some(Num(0)), Some(Num(1)), Some(Num(100)),
                      Some(Num(101))},
        admin \in {NoValue, Some(True)}}

\* no limiter and no sanitizer is in use; a validator made with one of the
\* schemas is about to be handed an object, or null
InitValidate ==
    /\ windowMs = 0
    /\ maxRequests = 0
    /\ requests = <<>>
    /\ now = 0
    /\ log = <<>>
    /\ InitSteps
    /\ InitNoText
    /\ InitNoTable
    /\ schema \in {"userValidationSchema", "searchValidationSchema"}
    /\ input \in {[isObject |-> FALSE, fields |-> <<>>]} \cup
                 {[isObject |-> TRUE, fields |-> o] :
                    o \in IF schema = "userValidationSchema"
                          THEN UserInputs ELSE SearchInputs}
    /\ outcome = [status |-> "none", value |-> NoValue, message |-> <<>>]

\* the validator is called with the input
Validate ==
    /\ outcome.status = "none"
    /\ outcome' = validateApiInput(SchemaOf(schema), input)
    /\ UNCHANGED <<schema, input>>
    /\ UNCHANGED <<limiterVars, stepVars, handlerVars, sanitizerVars, tableVars>>

NextValidate == Validate

SpecValidate == InitValidate /\ [][NextValidate]_vars

(* ------------------------------ UserTable ------------------------------ *)

\* the delay of the debounce timer
DebounceMs == 500

\* rowsPerPageOptions of the TablePagination
RowsPerPageOptions == {5, 10, 25, 50}

\* the pages the pagination hands to handleChangePage
PageIndexes == {0, 1}

\* what a user types into the search box, and picks in the role select
SearchValues == {"", "a", "ab"}
RoleValues == {"", "admin"}

\* what becomes of a fetch: a response that is ok, one that is not, a
\* rejection with an Error, a rejection with a value that is no Error
Responses == {"ok", "notOk", "rejected", "thrown"}

\* mutant: the page state is sent as it is
ParamsZeroBased(p, r, s, f) ==
    [page |-> p, per_page |-> r,
     search |-> IF s = "" THEN NoValue ELSE Some(s),
     role |-> IF f = "" THEN NoValue ELSE Some(f)]

\* new URLSearchParams({...}) of fetchUsers, from the values of its closure
Params(p, r, s, f) ==
    [page |-> p + 1, per_page |-> r,
     search |-> IF s = "" THEN NoValue ELSE Some(s),
     role |-> IF f = "" THEN NoValue ELSE Some(f)]

\* the body the backend answers request id with
DataOf(id) == [users |-> <<id>>, total |-> 20 + id]

\* err instanceof Error ? err.message : 'An error occurred'
MessageOf(response) ==
    CASE response = "notOk" -> "Failed to fetch users"
      [] response = "rejected" -> "Network error"
      [] response = "thrown" -> "An error occurred"

\* mutant: a failed fetch empties the list
SettleClearsUsers(id, response) ==
    IF response = "ok"
    THEN [users |-> DataOf(id).users, total |-> DataOf(id).total,
          error |-> error, loading |-> FALSE]
    ELSE [users |-> <<>>, total |-> 0,
          error |-> Some(MessageOf(response)), loading |-> FALSE]

\* fetchUsers from the await on: the states it leaves when request id
\* settles with the response
Settle(id, response) ==
    IF response = "ok"
    THEN [users |-> DataOf(id).users, total |-> DataOf(id).total,
          error |-> error, loading |-> FALSE]
    ELSE [users |-> users, total |-> total,
          error |-> Some(MessageOf(response)), loading |-> FALSE]

\* mutant: the cleanup of the debounce effect is missing
RearmKeepsOld(pending, timer) == pending \cup {timer}

\* the debounce effect on a change of search: the cleanup clears the timer
\* of the last run, then a new one is set
Rearm(pending, timer) == {timer}

\* what the component renders
View == IF error # NoValue THEN "alert" ELSE "table"

\* fetchUsers up to the await: loading and error are set and the request goes
\* out with the values of the closure
fetchUsers(p, r, s, f) ==
    /\ Len(issued) < MaxFetches
    /\ loading' = TRUE
    /\ error' = NoValue
    /\ issued' = Append(issued, [id |-> Len(issued) + 1] @@ Params(p, r, s, f))
    /\ inflight' = inflight \cup {Len(issued) + 1}

\* useEffect(() => { fetchUsers(); }, [fetchUsers]): fetchUsers is made anew,
\* and called, when one of page, rowsPerPage, searchDebounce, roleFilter
\* changes
Effect(p, r, s, f) ==
    IF <<p, r, s, f>> # <<pageIndex, rowsPerPage, searchDebounce, roleFilter>>
    THEN fetchUsers(p, r, s, f)
    ELSE UNCHANGED <<loading, error, issued, inflight>>

NoOtherVars ==
    UNCHANGED <<limiterVars, stepVars, handlerVars, sanitizerVars, validationVars>>

\* the state after the first render and its effects: the debounce timer is
\* set and the first fetch is out
InitTable ==
    /\ windowMs = 0
    /\ maxRequests = 0
    /\ requests = <<>>
    /\ now = 0
    /\ log = <<>>
    /\ InitSteps
    /\ InitNoText
    /\ schema = ""
    /\ input = [isObject |-> FALSE, fields |-> <<>>]
    /\ outcome = [status |-> "none", value |-> NoValue, message |-> <<>>]
    /\ users = <<>>
    /\ total = 0
    /\ loading = TRUE
    /\ error = NoValue
    /\ pageIndex = 0
    /\ rowsPerPage = 10
    /\ searchBox = ""
    /\ roleFilter = ""
    /\ searchDebounce = ""
    /\ timers = {[due |-> DebounceMs, value |-> ""]}
    /\ elapsed = 0
    /\ issued = <<[id |-> 1] @@ Params(0, 10, "", "")>>
    /\ inflight = {1}
    /\ done = <<>>
    /\ boxSince = 0
    /\ settled = {}

\* onChange of the search box: setSearch(value), and the debounce effect
setSearch(value) ==
    /\ View = "table"
    /\ value # searchBox
    /\ searchBox' = value
    /\ timers' = Rearm(timers, [due |-> elapsed + DebounceMs, value |-> value])
    /\ boxSince' = elapsed
    /\ UNCHANGED <<users, total, loading, error, pageIndex, rowsPerPage,
                   roleFilter, searchDebounce, elapsed, issued, inflight,
                   done, settled>>
    /\ NoOtherVars

\* time passes
Wait(d) ==
    /\ elapsed + d <= MaxWaits * (DebounceMs \div 2)
    /\ elapsed' = elapsed + d
    /\ settled' = IF elapsed' - boxSince >= DebounceMs
                  THEN settled \cup {searchBox} ELSE settled
    /\ UNCHANGED <<stateVars, timers, issued, inflight, done, boxSince>>
    /\ NoOtherVars

\* the callback of a debounce timer that is due: setSearchDebounce(search)
TimerFires(timer) ==
    /\ timer \in timers
    /\ elapsed >= timer.due
    /\ timers' = timers \ {timer}
    /\ searchDebounce' = timer.value
    /\ Effect(pageIndex, rowsPerPage, timer.value, roleFilter)
    /\ UNCHANGED <<users, total, pageIndex, rowsPerPage, searchBox,
                   roleFilter, elapsed, done, boxSince, settled>>
    /\ NoOtherVars

\* onChange of the role select: setRoleFilter(value)
setRoleFilter(value) ==
    /\ View = "table"
    /\ value # roleFilter
    /\ roleFilter' = value
    /\ Effect(pageIndex, rowsPerPage, searchDebounce, value)
    /\ UNCHANGED <<users, total, pageIndex, rowsPerPage, searchBox,
                   searchDebounce, timers, elapsed, done, boxSince, settled>>
    /\ NoOtherVars

\* const handleChangePage
handleChangePage(newPage) ==
    /\ View = "table"
    /\ newPage # pageIndex
    /\ pageIndex' = newPage
    /\ Effect(newPage, rowsPerPage, searchDebounce, roleFilter)
    /\ UNCHANGED <<users, total, rowsPerPage, searchBox, roleFilter,
                   searchDebounce, timers, elapsed, done, boxSince, settled>>
    /\ NoOtherVars

\* const handleChangeRowsPerPage, with the value of the option picked
handleChangeRowsPerPage(value) ==
    /\ View = "table"
    /\ value # rowsPerPage
    /\ rowsPerPage' = value
    /\ pageIndex' = 0
    /\ Effect(0, value, searchDebounce, roleFilter)
    /\ UNCHANGED <<users, total, searchBox, roleFilter, searchDebounce,
                   timers, elapsed, done, boxSince, settled>>
    /\ NoOtherVars

\* onClick={fetchUsers} of the refresh buttons: the one of the alert, or the
\* one over the table, which is disabled while loading
Refresh ==
    /\ View = "alert" \/ ~loading
    /\ fetchUsers(pageIndex, rowsPerPage, searchDebounce, roleFilter)
    /\ UNCHANGED <<users, total, pageIndex, rowsPerPage, searchBox,
                   roleFilter, searchDebounce, timers, elapsed, done,
                   boxSince, settled>>
    /\ NoOtherVars

\* a pending fetch settles, and fetchUsers runs from its await to its end
Respond(id, response) ==
    /\ id \in inflight
    /\ inflight' = inflight \ {id}
    /\ done' = Append(done, [id |-> id, response |-> response])
    /\ LET after == Settle(id, response)
       IN  /\ users' = after.users
           /\ total' = after.total
           /\ error' = after.error
           /\ loading' = after.loading
    /\ UNCHANGED <<pageIndex, rowsPerPage, searchBox, roleFilter,
                   searchDebounce, timers, elapsed, issued, boxSince, settled>>
    /\ NoOtherVars

NextTable ==
    \/ \E value \in SearchValues : setSearch(value)
    \/ \E d \in {DebounceMs \div 2, DebounceMs} : Wait(d)
    \/ \E timer \in timers : TimerFires(timer)
    \/ \E value \in RoleValues : setRoleFilter(value)
    \/ \E newPage \in PageIndexes : handleChangePage(newPage)
    \/ \E value \in RowsPerPageOptions : handleChangeRowsPerPage(value)
    \/ Refresh
    \/ \E id \in inflight, response \in Responses : Respond(id, response)

SpecTable == InitTable /\ [][NextTable]_vars

(* ------------------------------ helpers -------------------------------- *)
\* the calls made for one identifier, in call order
CallsOf(identifier) == SelectSeq(log, LAMBDA e : e.id = identifier)

\* number of admitted calls of a history with a timestamp in (lo, hi]
Admitted(calls, lo, hi) ==
    Cardinality({i \in 1..Len(calls) :
        calls[i].ok /\ calls[i].t > lo /\ calls[i].t <= hi})

\* a fresh limiter fed a history of calls: the map it ends with and the
\* booleans it returned
RECURSIVE Replay(_)
Replay(calls) ==
    IF calls = <<>>
    THEN [requests |-> <<>>, oks |-> <<>>]
    ELSE LET prev == Replay(SubSeq(calls, 1, Len(calls) - 1))
             e == calls[Len(calls)]
             r == Limiter(prev.requests, e.id, e.t)
         IN  [requests |-> r.requests, oks |-> Append(prev.oks, r.ok)]

\* what a map holds for an identifier (the empty list when it has no entry)
Stored(map, identifier) ==
    IF identifier \in DOMAIN map THEN map[identifier] ELSE <<>>

\* the step just taken completed a limiter call / a rejected one
CallStep == Len(log') = Len(log) + 1
RejectedStep == CallStep /\ ~log'[Len(log')].ok

\* The instants at which the content of a trailing window (t - windowMs, t]
\* changes: a call's timestamp enters it at e.t and has left it at
\* e.t + windowMs; between two such instants the window holds the same calls.
Instants ==
    UNION {{e.t, e.t + windowMs - 1, e.t + windowMs} :
           e \in {log[i] : i \in 1..Len(log)}}

(* ------------------------------- claims -------------------------------- *)

\* C1: ceiling invariant. With non-decreasing clock readings, for every
\* identifier and every instant t, at most maxRequests admitted calls of that
\* identifier have their timestamp in the trailing window (t - windowMs, t].
C1_Ceiling ==
    \A identifier \in Identifiers : \A t \in Instants :
        Admitted(CallsOf(identifier), t - windowMs, t) <= maxRequests

\* C1 witness: an identifier filled its window (maxRequests admitted calls in
\* it), was rejected inside it and admitted again after it.
C1_Witness ==
    /\ maxRequests >= 2
    /\ \E i, j, k \in 1..Len(log) :
        /\ i < j /\ j < k
        /\ log[i].id = log[j].id /\ log[j].id = log[k].id
        /\ log[i].ok /\ ~log[j].ok /\ log[k].ok
        /\ Admitted(CallsOf(log[i].id), log[j].t - windowMs, log[j].t)
               = maxRequests

\* C2: exactness. A call for id at time now returns true exactly when fewer
\* than maxRequests previously admitted calls for id, counted over the whole
\* history, have a timestamp strictly greater than now - windowMs.
C2_Exact ==
    \A i \in 1..Len(log) :
        log[i].ok <=>
            Cardinality({j \in 1..(i - 1) :
                /\ log[j].id = log[i].id
                /\ log[j].ok
                /\ log[j].t > log[i].t - windowMs}) < maxRequests

\* C2 witness: a call was admitted although maxRequests earlier admitted calls
\* of its identifier are in the history (they have left the window), and a
\* later call of the same identifier was rejected.
C2_Witness ==
    /\ maxRequests >= 1
    /\ \E i, k \in 1..Len(log) :
        /\ i < k
        /\ log[i].id = log[k].id
        /\ log[i].ok /\ ~log[k].ok
        /\ Cardinality({j \in 1..(i - 1) :
               log[j].id = log[i].id /\ log[j].ok}) >= maxRequests

\* C3: with createRateLimiter(1000, 3), the first four calls for one
\* identifier, the fourth less than 1000 ms after the first, return true,
\* true, true, false; a fifth call 1001 ms or more after the first returns
\* true.
C3_Scenario ==
    \A identifier \in Identifiers :
        LET c == CallsOf(identifier)
        IN  (Len(c) >= 4 /\ c[4].t - c[1].t < 1000) =>
                /\ c[1].ok /\ c[2].ok /\ c[3].ok /\ ~c[4].ok
                /\ (Len(c) >= 5 /\ c[5].t >= c[1].t + 1001) => c[5].ok

\* C3 witness: the five calls of the scenario were made for "a", the second
\* and third late in the window, the fifth 1001 ms after the first.
C3_Witness ==
    LET c == CallsOf("a")
    IN  /\ windowMs = 1000 /\ maxRequests = 3
        /\ Len(c) = 5
        /\ c[2].t = c[1].t + 999
        /\ c[4].t - c[1].t < 1000
        /\ c[5].t = c[1].t + 1001
        /\ ~c[4].ok /\ c[5].ok

\* C4: a rejected call leaves the identifier-to-timestamps map unchanged: no
\* timestamp recorded, no entry created, no other list changed.
C4_RejectFrame ==
    [][RejectedStep => requests' = requests]_vars

\* C4 witness: the last call was rejected, for an identifier whose list is
\* full, while the other identifier has an entry as well.
C4_Witness ==
    /\ Len(log) >= 1
    /\ ~log[Len(log)].ok
    /\ maxRequests >= 1
    /\ DOMAIN requests = Identifiers
    /\ Len(requests[log[Len(log)].id]) = maxRequests

\* every result for b, and the entry stored for b, is what a limiter that was
\* only ever called for b (at the same times) returns and stores
C5_StoredAlone ==
    \A b \in Identifiers :
        LET c == CallsOf(b)
            alone == Replay(c)
        IN  /\ \A i \in 1..Len(c) : c[i].ok = alone.oks[i]
            /\ (b \in DOMAIN requests) = (b \in DOMAIN alone.requests)
            /\ Stored(requests, b) = Stored(alone.requests, b)

\* a step that completes a call for another identifier leaves b's entry alone
C5_OtherUntouched ==
    \A b \in Identifiers :
        (CallStep /\ log'[Len(log')].id # b) =>
            /\ (b \in DOMAIN requests') = (b \in DOMAIN requests)
            /\ Stored(requests', b) = Stored(requests, b)

\* C5: isolation. A call for a, admitted or rejected, never changes what is
\* stored for another identifier b, and the result of every call for b is the
\* same as if no call for a had ever been made.
C5_Isolation ==
    [][C5_OtherUntouched]_vars /\ []C5_StoredAlone

\* C5 witness: calls for "a" and "b" at the same instant, "a" rejected and
\* "b" admitted after it, then "b" rejected as well.
C5_Witness ==
    \E i, j, k \in 1..Len(log) :
        /\ i < j /\ j < k
        /\ log[i].id = "a" /\ ~log[i].ok
        /\ log[j].id = "b" /\ log[j].ok /\ log[j].t = log[i].t
        /\ log[k].id = "b" /\ ~log[k].ok
        /\ "a" \in DOMAIN requests

\* C6: when the statements of two calls for one identifier may interleave,
\* more than maxRequests calls can be admitted within one window; this
\* happens only for an identifier for which one call began while another
\* was still running, never when its calls run one after the other.
C6_OnlyWhenInterleaved ==
    \A identifier \in Identifiers :
        (\E t \in Instants :
            Admitted(CallsOf(identifier), t - windowMs, t) > maxRequests)
        => identifier \in overlapped

\* C6 witness: two calls for "a" were at the comparison together, both saw
\* recentRequests.length < maxRequests, and both were admitted: more than
\* maxRequests admitted calls share a window and the stored list lost one.
C6_Witness ==
    /\ maxRequests >= 1
    /\ "a" \in overlapped
    /\ \A p \in Procs : pc[p] = "idle"
    /\ Admitted(CallsOf("a"), now - windowMs, now) > maxRequests
    /\ Len(Stored(requests, "a")) <= maxRequests

\* the values a forwarded request carries passed the schema of its route
Validated(f) ==
    IF f.method = "GET"
    THEN SearchSchemaAccepts(f.payload)
    ELSE UserSchemaAccepts(f.payload)

\* the limiter had admitted the caller before the request was forwarded
LimiterAdmitted(f) ==
    \E j \in 1..f.calls : log[j].id = f.identifier /\ log[j].ok

\* C7: a request reaches the backend fetch only if the validation adapter
\* accepted its query/body values and the rate limiter admitted the caller.
C7_Guarded ==
    \A i \in 1..Len(backend) :
        Validated(backend[i]) /\ LimiterAdmitted(backend[i])

\* C8: validateSearchQuery is idempotent: validateSearchQuery of its own
\* result is that result.
C8_SearchIdempotent ==
    (fn = "validateSearchQuery" /\ stage = "twice") => cleanAgain = clean

\* C9: sanitizeText is idempotent: sanitizeText of its own result is that
\* result.
C9_TextIdempotent ==
    (fn = "sanitizeText" /\ stage = "twice") => cleanAgain = clean

\* a piece of s matches the pattern
Contains(s, pattern, ignoreCase) ==
    \E i \in 1..Len(s) : MatchesAt(s, i, Cases(pattern, ignoreCase))

\* C10: the result of validateSearchQuery holds none of the sequences it
\* strips: no "--", no "/*", no "*/", and in no letter case "xp_" or "sp_".
C10_NoStrippedSequence ==
    (fn = "validateSearchQuery" /\ stage # "input") =>
        /\ ~Contains(clean, <<"-", "-">>, FALSE)
        /\ ~Contains(clean, <<"/", "*">>, FALSE)
        /\ ~Contains(clean, <<"*", "/">>, FALSE)
        /\ ~Contains(clean, <<"x", "p", "_">>, TRUE)
        /\ ~Contains(clean, <<"s", "p", "_">>, TRUE)

\* the characters of s
Chars(s) == {s[i] : i \in 1..Len(s)}

\* C11: the result of validateSearchQuery holds no single quote, no double
\* quote and no backslash; for the query admin'; DROP TABLE users; -- it holds
\* no quote, no backslash and no "--".
C11_NoQuotes ==
    (fn = "validateSearchQuery" /\ stage # "input") =>
        /\ Chars(clean) \cap {"'", "\"", "\\"} = {}
        /\ text = AdminQuery => ~Contains(clean, <<"-", "-">>, FALSE)

\* C11 witness: the scenario's query was sanitized to admin DROP TABLE users
C11_Witness ==
    /\ fn = "validateSearchQuery" /\ stage = "once"
    /\ text = AdminQuery
    /\ clean = <<"a", "d", "m", "i", "n", " ", "D", "R", "O", "P", " ",
               "T", "A", "B", "L", "E", " ", "u", "s", "e", "r", "s">>

\* C12: the result of sanitizeText holds no "<" and no ">", in no letter
\* case the substring "javascript:", and no leading or trailing white space.
C12_TextClean ==
    (fn = "sanitizeText" /\ stage # "input") =>
        /\ Chars(clean) \cap {"<", ">"} = {}
        /\ ~Contains(clean, <<"j", "a", "v", "a", "s", "c", "r", "i", "p", "t", ":">>, TRUE)
        /\ clean # <<>> =>
               clean[1] \notin WhiteSpace /\ clean[Len(clean)] \notin WhiteSpace

\* C13: the result of validateSearchQuery is at most 100 characters long.
C13_AtMost100 ==
    (fn = "validateSearchQuery" /\ stage # "input") => Len(clean) <= 100

\* C13 witness: more than 100 characters were left after stripping, and the
\* result is exactly 100 long.
C13_Witness ==
    /\ fn = "validateSearchQuery" /\ stage = "once"
    /\ Len(StripPatterns(text)) > 100
    /\ Len(clean) = 100

\* the messages a thrown error's message was joined from
Messages(message) == [k \in 1..(Len(message) \div 2) |-> message[2 * k]]

\* the fields of the schema in use that the input fails
FailingFields ==
    {i \in 1..Len(SchemaOf(schema)) :
        ParseField(SchemaOf(schema)[i], input.fields).issues # <<>>}

\* C15: validation is an allow-list: the keys of a record validateApiInput
\* returns are all declared by the schema, and a key of the input that the
\* schema does not declare, such as admin, is not in the record.
C15_AllowList ==
    outcome.status = "returned" =>
        /\ DOMAIN outcome.value[1] \subseteq FieldNames(SchemaOf(schema))
        /\ "admin" \notin DOMAIN outcome.value[1]

\* C15 witness: an input with name, email, role and admin: true was accepted
\* by userValidationSchema, and the record holds name, email and role
C15_Witness ==
    /\ schema = "userValidationSchema"
    /\ outcome.status = "returned"
    /\ DOMAIN input.fields = {"name", "email", "role", "admin"}
    /\ DOMAIN outcome.value[1] = {"name", "email", "role"}

\* after a call with an input one field of which fails, nothing was
\* returned and an error was thrown; a role outside admin, user, manager
\* makes the message name the allowed values
C16_NoRecord ==
    (outcome.status # "none" /\ input.isObject) =>
        /\ FailingFields # {} =>
              /\ outcome.status = "thrown"
              /\ outcome.value = NoValue
              /\ Len(outcome.message) >= 2
        /\ ( /\ "role" \in DOMAIN input.fields
             /\ input.fields["role"].s \notin {Admin, User, Manager}
             /\ schema = "userValidationSchema" ) =>
              \E k \in 1..Len(outcome.message) :
                  outcome.message[k] = "Role must be admin, user, or manager"
        /\ ( /\ "role" \in DOMAIN input.fields
             /\ input.fields["role"].s \notin {Admin, User, Manager, <<>>}
             /\ schema = "searchValidationSchema" ) =>
              \E k \in 1..Len(outcome.message) :
                  outcome.message[k] =
                      "Invalid enum value. Expected 'admin' | 'user' | 'manager' | '', received 'root'"

\* C16: validation is all-or-nothing: when a field of the input violates its
\* constraint (role superuser against admin, user, manager), validateApiInput
\* returns no record, partial or complete, and throws an error whose message
\* names the allowed values; the input object is not modified.
C16_AllOrNothing == []C16_NoRecord /\ [][input' = input]_vars

\* C16 witness: role superuser with a valid name and email was rejected with
\* the role's message alone
C16_Witness ==
    /\ schema = "userValidationSchema"
    /\ outcome.status = "thrown"
    /\ outcome.value = NoValue
    /\ input.isObject
    /\ FailingFields = {3}
    /\ "role" \in DOMAIN input.fields
    /\ input.fields["role"] = Str(<<"s", "u", "p", "e", "r", "u", "s", "e", "r">>)
    /\ outcome.message =
          <<"Validation failed: ", "Role must be admin, user, or manager">>

\* the place of field i's first message among the messages of the error
RECURSIVE Offset(_)
Offset(i) ==
    IF i = 1 THEN 0
    ELSE Offset(i - 1)
           + Len(ParseField(SchemaOf(schema)[i - 1], input.fields).issues)

Given(key) ==
    IF input.isObject /\ key \in DOMAIN input.fields
          /\ input.fields[key].kind = "number"
    THEN Some(input.fields[key].n) ELSE NoValue

\* the messages of the thrown error
Thrown(message) ==
    /\ outcome.status = "thrown"
    /\ \E k \in 1..Len(outcome.message) : outcome.message[k] = message

\* C18: numeric fields are never clamped: under searchValidationSchema a page
\* outside 1..10000 or a per_page outside 1..100 makes validation fail with
\* the message of the bound that is violated, and a record that is returned
\* holds the page and per_page of the input unchanged.
C18_NoClamping ==
    (schema = "searchValidationSchema" /\ outcome.status # "none") =>
        LET page == Given("page")
            per_page == Given("per_page")
        IN  /\ (page # NoValue /\ page[1] < 1) =>
                  Thrown("Page must be at least 1")
            /\ (page # NoValue /\ page[1] > 10000) =>
                  Thrown("Page number too high")
            /\ (per_page # NoValue /\ per_page[1] < 1) =>
                  Thrown("Per page must be at least 1")
            /\ (per_page # NoValue /\ per_page[1] > 100) =>
                  Thrown("Per page cannot exceed 100")
            /\ outcome.status = "returned" =>
                  /\ outcome.value[1]["page"] = input.fields["page"]
                  /\ outcome.value[1]["per_page"] = input.fields["per_page"]

\* C18 witness: page 10001 and per_page 0 were rejected with the messages of
\* the upper bound of page and of the lower bound of per_page
C18_Witness ==
    /\ schema = "searchValidationSchema"
    /\ Given("page") = Some(10001)
    /\ Given("per_page") = Some(0)
    /\ Thrown("Page number too high")
    /\ Thrown("Per page must be at least 1")
    /\ ~Thrown("Page must be at least 1")
    /\ ~Thrown("Per page cannot exceed 100")

\* the identifiers limiter calls were made for
Called == {log[i].id : i \in 1..Len(log)}

\* no call takes a key out of the map
C19_KeysStay == [][DOMAIN requests \subseteq DOMAIN requests']_vars

\* C19 as stated, its first half: after the first call for an identifier the
\* map has an entry for it, whatever the limit is.
C19_EntryAfterFirstCall == Called \subseteq DOMAIN requests

\* C19: entry lifecycle: with maxRequests >= 1, after the first call for an
\* identifier not seen before the map holds an entry for it; for every limit,
\* once an identifier has an entry no later call for any identifier removes
\* it, so the set of keys never shrinks.
C19_Lifecycle ==
    [](maxRequests >= 1 => Called \subseteq DOMAIN requests) /\ C19_KeysStay

\* C19 witness: both identifiers were called and have an entry, and the last
\* call, a rejected one, left them in place
C19_Witness ==
    /\ maxRequests >= 1
    /\ Called = Identifiers
    /\ DOMAIN requests = Identifiers
    /\ ~log[Len(log)].ok

\* the list stored for the identifier of the last call holds no timestamp at
\* or before that call's window start
NoneExpired ==
    log # <<>> =>
        LET e == log[Len(log)]
            list == Stored(requests, e.id)
        IN  \A i \in 1..Len(list) : ~(list[i] <= e.t - windowMs)

\* C20 as stated: right after any limiter call for id at time now, admitted
\* or rejected, the list stored for id holds no timestamp <= now - windowMs,
\* whatever the window is.
C20_NoneExpiredAnyWindow == NoneExpired

\* C20: lazy expiry on every check: with windowMs >= 1, right after any
\* limiter call for id at time now, admitted or rejected, the list stored for
\* id holds no timestamp less than or equal to now - windowMs.
C20_LazyExpiry == windowMs >= 1 => NoneExpired

\* C20 witness: a call was admitted after an earlier timestamp of the same
\* identifier had expired: the stored list holds the new timestamp alone
C20_Witness ==
    /\ windowMs >= 1
    /\ Len(log) >= 2
    /\ LET e == log[Len(log)]
       IN  /\ e.ok
           /\ \E i \in 1..(Len(log) - 1) :
                 /\ log[i].id = e.id /\ log[i].ok
                 /\ log[i].t <= e.t - windowMs
           /\ Stored(requests, e.id) = <<e.t>>

\* the calls made for the identifier of call j before call j
Earlier(j) ==
    SelectSeq(SubSeq(log, 1, j - 1), LAMBDA e : e.id = log[j].id)

\* the admitted calls among calls
AdmittedCalls(calls) == SelectSeq(calls, LAMBDA e : e.ok)

\* call j comes when the identifier's admitted calls so far are maxRequests
\* in number, one at least, and were all made at t0
FullAt(j, t0) ==
    LET admitted == AdmittedCalls(Earlier(j))
    IN  /\ Len(admitted) = maxRequests
        /\ Len(admitted) >= 1
        /\ \A i \in 1..Len(admitted) : admitted[i].t = t0

\* C21: the window boundary is exclusive: a timestamp exactly windowMs older
\* than now is not counted as recent. An identifier whose maxRequests admitted
\* calls were all made at t0 is rejected at t0 + d for d < windowMs and is
\* admitted at exactly t0 + windowMs.
C21_ExclusiveBoundary ==
    \A j \in 1..Len(log) : \A i \in 1..(j - 1) :
        LET t0 == log[i].t
        IN  (log[i].id = log[j].id /\ log[i].ok /\ FullAt(j, t0)) =>
                /\ log[j].t < t0 + windowMs => ~log[j].ok
                /\ log[j].t = t0 + windowMs => log[j].ok

\* C21 witness: two calls admitted at t0, one rejected inside the window, and
\* one admitted at exactly t0 + windowMs, all for one identifier
C21_Witness ==
    /\ windowMs = 2 /\ maxRequests = 2
    /\ Len(log) = 4
    /\ \A i \in 1..4 : log[i].id = log[1].id
    /\ log[1].ok /\ log[2].ok /\ log[2].t = log[1].t
    /\ ~log[3].ok /\ log[3].t < log[1].t + windowMs
    /\ log[4].ok /\ log[4].t = log[1].t + windowMs

\* C22: rejected attempts never postpone admission: with a clock that does
\* not go back, a call made at a time t at which fewer than maxRequests
\* admitted timestamps of its identifier are greater than t - windowMs is
\* admitted, however many calls were rejected before it; with
\* maxRequests >= 1 a call made windowMs or more after the identifier's last
\* admitted call is admitted.
C22_NoStarvation ==
    \A j \in 1..Len(log) :
        LET admitted == AdmittedCalls(Earlier(j))
            recent == SelectSeq(admitted,
                          LAMBDA e : e.t > log[j].t - windowMs)
        IN  /\ Len(recent) < maxRequests => log[j].ok
            /\ ( /\ maxRequests >= 1
                 /\ admitted # <<>>
                 /\ log[j].t >= admitted[Len(admitted)].t + windowMs ) =>
                    log[j].ok

\* C22 witness: after two rejected calls inside the window the identifier is
\* admitted at the first call made windowMs after its admitted one
C22_Witness ==
    /\ windowMs >= 1 /\ maxRequests = 1
    /\ Len(log) = 4
    /\ \A i \in 1..4 : log[i].id = log[1].id
    /\ log[1].ok /\ ~log[2].ok /\ ~log[3].ok /\ log[4].ok
    /\ log[4].t = log[1].t + windowMs

\* list is in non-decreasing order
Sorted(list) == \A i \in 1..(Len(list) - 1) : list[i] <= list[i + 1]

\* an admitted call leaves the stored timestamps that are greater than
\* now - windowMs, in their order, followed by now
C23_AdmittedStep ==
    (CallStep /\ log'[Len(log')].ok) =>
        LET e == log'[Len(log')]
            before == Stored(requests, e.id)
            kept == {i \in 1..Len(before) : before[i] > e.t - windowMs}
            after == Stored(requests', e.id)
        IN  /\ Len(after) = Cardinality(kept) + 1
            /\ after[Len(after)] = e.t
            /\ \A i \in kept :
                  after[Cardinality({k \in kept : k <= i})] = before[i]

\* C23: after an admitted call at time now the list stored for the identifier
\* is the previously stored timestamps that are greater than now - windowMs,
\* in their previous order, followed by now; with clock readings that do not
\* go back every stored list is sorted in non-decreasing order.
C23_StoredList ==
    /\ [][C23_AdmittedStep]_vars
    /\ [](\A id \in Identifiers : Sorted(Stored(requests, id)))

\* C23 witness: an admitted call dropped an expired timestamp, kept a recent
\* one and put its own after it
C23_Witness ==
    /\ Len(log) >= 3
    /\ LET e == log[Len(log)]
           list == Stored(requests, e.id)
       IN  /\ e.ok
           /\ Len(list) = 2 /\ list[1] < list[2] /\ list[2] = e.t
           /\ \E i \in 1..(Len(log) - 1) :
                 /\ log[i].id = e.id /\ log[i].ok
                 /\ log[i].t <= e.t - windowMs
                 /\ log[i].t < list[1]

\* C26: for maxRequests >= 1 the list stored for an identifier never holds
\* more than maxRequests timestamps, after any calls and for any clock
\* readings; so after a rejected call the stored list equals the pruned list:
\* skipping the write on rejection leaves no expired timestamp behind.
C26_StoredBounded ==
    /\ maxRequests >= 1 =>
          \A id \in Identifiers : Len(Stored(requests, id)) <= maxRequests
    /\ (log # <<>> /\ ~log[Len(log)].ok) =>
          LET e == log[Len(log)]
              list == Stored(requests, e.id)
          IN  SelectSeq(list, LAMBDA time : time > e.t - windowMs) = list

\* C26 witness: with a clock that went back, a call was rejected while the
\* stored list was full
C26_Witness ==
    /\ maxRequests >= 1
    /\ Len(log) >= 2
    /\ LET e == log[Len(log)]
       IN  /\ ~e.ok
           /\ Len(Stored(requests, e.id)) = maxRequests
           /\ \E i \in 1..(Len(log) - 1) : log[i].t > e.t

\* the first 100 characters of s, or all of s when it is shorter
First100(s) == [i \in 1..(IF Len(s) < 100 THEN Len(s) ELSE 100) |-> s[i]]

\* r is s without the white space at its two ends
IsTrimOf(r, s) ==
    \E lead \in 0..(Len(s) - Len(r)) :
        /\ \A i \in 1..lead : s[i] \in WhiteSpace
        /\ \A i \in (lead + Len(r) + 1)..Len(s) : s[i] \in WhiteSpace
        /\ \A i \in 1..Len(r) : r[i] = s[lead + i]
        /\ r # <<>> => r[1] \notin WhiteSpace /\ r[Len(r)] \notin WhiteSpace

\* C24: validateSearchQuery strips, then cuts to 100 characters, then trims:
\* its result is trim(first100(stripAll(s))) for every s, so stripped
\* characters do not use up the 100 characters (100 quote characters followed
\* by abc give abc) and white space laid bare by the cut is trimmed.
C24_StripSliceTrim ==
    (fn = "validateSearchQuery" /\ stage # "input") =>
        /\ IsTrimOf(clean, First100(StripPatterns(text)))
        /\ text = QuotesThenAbc => clean = <<"a", "b", "c">>

\* C24 witness: 100 quote characters followed by abc came out as abc
C24_Witness ==
    /\ fn = "validateSearchQuery" /\ stage = "once"
    /\ text = QuotesThenAbc
    /\ clean = <<"a", "b", "c">>

\* the characters the input gives for a key, when it gives a string
GivenText(key) ==
    IF input.isObject /\ key \in DOMAIN input.fields
          /\ input.fields[key].kind = "string"
    THEN Some(input.fields[key].s) ELSE NoValue

FetchStep == Len(issued') = Len(issued) + 1
SettleStep == Len(done') = Len(done) + 1

\* C27: UserTable debounces the search input: a fetch carries search=<value>
\* only after the search box has held that value unchanged for 500 ms; a
\* change made before the pending timer fires cancels it, so a value that was
\* replaced within 500 ms is never sent to /api/users.
C27_Debounced ==
    /\ \A i \in 1..Len(issued) :
          issued[i].search # NoValue => issued[i].search[1] \in settled
    /\ \A timer \in timers :
          timer.value = searchBox /\ timer.due = boxSince + DebounceMs

\* C27 witness: a was typed and replaced by ab within 500 ms; ab was sent
\* once it had stayed for 500 ms, a never was
C27_Witness ==
    /\ "a" \notin settled
    /\ "ab" \in settled
    /\ issued[Len(issued)].search = Some("ab")
    /\ boxSince > 0 /\ boxSince < DebounceMs

\* a change of rows per page resets the page and makes a fetch with the new
\* per_page and page 1; a fetch carries the page state plus one
C28_Step ==
    /\ rowsPerPage' # rowsPerPage =>
          /\ pageIndex' = 0
          /\ FetchStep
          /\ issued'[Len(issued')].per_page = rowsPerPage'
          /\ issued'[Len(issued')].page = 1
    /\ FetchStep =>
          /\ issued'[Len(issued')].page = pageIndex' + 1
          /\ issued'[Len(issued')].per_page = rowsPerPage'
    /\ (FetchStep /\ pageIndex = 0 /\ pageIndex' = 1) =>
          issued'[Len(issued')].page = 2

C29_Step ==
    SettleStep =>
        LET e == done'[Len(done')]
        IN  /\ loading' = FALSE
            /\ e.response # "ok" =>
                  /\ error' # NoValue
                  /\ e.response = "notOk" =>
                        error' = Some("Failed to fetch users")
                  /\ e.response = "rejected" => error' = Some("Network error")
                  /\ users' = users /\ total' = total
                  /\ (IF error' # NoValue THEN "alert" ELSE "table") = "alert"

\* C29: when a UserTable fetch rejects or returns a response that is not OK,
\* the component ends with loading = false and error set to the error's
\* message, renders the alert in place of the table, and leaves the users and
\* total loaded before unchanged; every fetch, successful or failed, ends
\* with loading = false.
C29_FailedFetch == [][C29_Step]_vars

\* C29 witness: after a first fetch loaded its users, a second one failed:
\* the alert shows and the users of the first are still held
C29_Witness ==
    /\ Len(done) = 2
    /\ done[1].response = "ok" /\ done[2].response = "rejected"
    /\ users = DataOf(done[1].id).users /\ total = DataOf(done[1].id).total
    /\ error = Some("Network error")
    /\ ~loading
    /\ View = "alert"

\* the request made last has settled with an ok response
LastLoaded ==
    \E i \in 1..Len(done) :
        done[i].id = Len(issued) /\ done[i].response = "ok"

\* C30: when requests overlap, their responses may come in any order;
\* whenever no request is in flight, the users and total shown are those of
\* the response to the request made last: a late response to an older
\* request never overwrites the result of a newer one.
C30_LatestWins ==
    (inflight = {} /\ LastLoaded) =>
        /\ users = DataOf(Len(issued)).users
        /\ total = DataOf(Len(issued)).total

====
